---- MODULE Spec2Model ----
(***************************************************************************)
(* convert_zh: batch conversion of Simplified Chinese text files (and the  *)
(* names of files and directories) to Traditional Chinese.                 *)
(*                                                                         *)
(* The model is the command line entry point main() driving                *)
(* FileProcessor.process_directory over a small directory tree.  The tree  *)
(* is a table of nodes (directories and regular files); the program holds  *)
(* PATHS, which are resolved against the table each time the code touches  *)
(* the filesystem.  Strings are abstract tokens:                           *)
(*   "s", "u"  Simplified text that OpenCC rewrites to "t"                 *)
(*   "t"       Traditional text, left alone by OpenCC                      *)
(*   "m"       mojibake (the wrong decoder succeeded)                      *)
(*   "r"       text with U+FFFD replacement characters                     *)
(*   ""        the empty string                                            *)
(* A name is a record [stem, suffix] as pathlib splits it; a text is the   *)
(* sequence of its lines (text.split("\n"), never empty).                  *)
(***************************************************************************)
EXTENDS Integers, Sequences, FiniteSets, TLC

\* ------------------------------------------------------------------ bounds
\* Largest number of entries (files and directories) below the target directory.
MaxEntries == 4
\* Largest number of I/O errors the environment raises during one run.
MaxFaults == 1
\* Largest number of lines of a text given to a function called on its own.
MaxLines == 2

\* ------------------------------------------------------------- converter.py
\* OpenCC("s2twp").convert on one token: Simplified becomes Traditional,
\* anything else is unchanged (two Simplified tokens share one Traditional form).
cc(tok) == IF tok \in {"s", "u"} THEN "t" ELSE tok

\* ChineseConverter.convert on a text (sequence of lines): the empty string is
\* returned as it is, any other text goes through OpenCC line by line
\* (character substitution never adds or removes a newline).
convert(text) == IF text = <<"">> THEN text ELSE [i \in DOMAIN text |-> cc(text[i])]

\* ChineseConverter.convert on a one-line string held as a token (a name).
convertStr(tok) == IF tok = "" THEN tok ELSE cc(tok)

\* ChineseConverter.convert_filename: only the stem is converted, the suffix is kept.
convert_filename(name) == [stem |-> convertStr(name.stem), suffix |-> name.suffix]

\* converter.convert(dir_path.name): the whole name goes through the converter
\* (the model's suffixes are ASCII, which OpenCC leaves alone).
convert_dirname(name) == [stem |-> convertStr(name.stem), suffix |-> convertStr(name.suffix)]

\* str.lower() on a suffix.
lower(suffix) == IF suffix = ".TXT" THEN ".txt" ELSE suffix

\* FileProcessor.extensions as main() configures it: extensions=[".txt"], lowercased.
extensions == {lower(".txt")}

\* -------------------------------------------------------------- encoding.py
CHINESE_ENCODINGS == <<"gb18030", "gbk", "gb2312", "utf-8", "utf-8-sig", "big5", "big5hkscs">>

\* The value of a failed strict decode (UnicodeDecodeError); no text is the empty sequence.
DecodeError == <<>>

\* Codec family of an encoding name.
Family(e) ==
    IF e \in {"gb18030", "gbk", "gb2312"} THEN "gb"
    ELSE IF e \in {"utf-8", "utf-8-sig"} THEN "utf-8"
    ELSE IF e \in {"big5", "big5hkscs"} THEN "big5"
    ELSE IF e = "latin_1" THEN "latin_1"
    ELSE "unknown"

\* What a wrong but accepting decoder yields: every line becomes mojibake.
Mojibake(text) == [i \in DOMAIN text |-> IF text[i] = "" THEN "" ELSE "m"]

\* A byte buffer is [enc, text, guess]: the bytes are `text` encoded in `enc`
\*   "gb18030"   GB bytes;   "big5"  Big5 bytes;   "utf-8"  UTF-8 bytes;
\*   "utf-8+gb"  UTF-8 bytes that happen to be valid GB18030 as well;
\*   "raw"       bytes no candidate decodes (text is their lossy GB18030 reading);
\* `guess` is what charset_normalizer's from_bytes(raw).best() answers for these
\* bytes ("None" for no result, "?" for bytes the program wrote itself, whose
\* detection is settled when they are read).
NoBytes == [enc |-> "none", text |-> <<>>, guess |-> "none"]

\* raw_data.decode(e): the text, or DecodeError.  A single-byte codec accepts
\* every byte, and every codec decodes the empty buffer to the empty string.
StrictDecode(b, e) ==
    LET fam == Family(e) IN
    IF fam = "latin_1" THEN Mojibake(b.text)
    ELSE IF b.text = <<"">> /\ b.enc # "raw" /\ fam # "unknown" THEN b.text
    ELSE
    CASE b.enc = "gb18030" ->
            IF fam = "gb" THEN (IF e = "gb2312" /\ \E i \in DOMAIN b.text : b.text[i] = "t"
                                THEN DecodeError ELSE b.text)
            ELSE IF fam = "big5" THEN Mojibake(b.text)
            ELSE DecodeError
      [] b.enc = "big5" ->
            IF fam = "big5" THEN b.text
            ELSE IF e \in {"gb18030", "gbk"} THEN Mojibake(b.text)
            ELSE DecodeError
      [] b.enc = "utf-8" ->
            IF fam = "utf-8" THEN b.text ELSE DecodeError
      [] b.enc = "utf-8+gb" ->
            IF fam = "utf-8" THEN b.text
            ELSE IF e \in {"gb18030", "gbk"} THEN Mojibake(b.text)
            ELSE DecodeError
      [] OTHER -> DecodeError

\* Faulty variant: the last resort decodes strictly as well.
LossyDecodeStrictly(b) == StrictDecode(b, "gb18030")

\* raw_data.decode("gb18030", errors="replace"): never raises.
LossyDecode(b) ==
    IF StrictDecode(b, "gb18030") # DecodeError THEN StrictDecode(b, "gb18030") ELSE b.text

\* The loop over CHINESE_ENCODINGS from position i: the first candidate that
\* decodes strictly, else the lossy GB18030 reading.
RECURSIVE TryEncodings(_, _)
TryEncodings(b, i) ==
    IF i > Len(CHINESE_ENCODINGS)
    THEN [text |-> LossyDecode(b), encoding |-> "gb18030", lossy |-> TRUE]
    ELSE IF StrictDecode(b, CHINESE_ENCODINGS[i]) # DecodeError
         THEN [text |-> StrictDecode(b, CHINESE_ENCODINGS[i]),
               encoding |-> CHINESE_ENCODINGS[i], lossy |-> FALSE]
         ELSE TryEncodings(b, i + 1)

\* Faulty variant: the detector's answer is not tried first.
read_ignoring_detector(b, g) == TryEncodings(b, 1)

\* read_file_with_encoding once the bytes are in memory; g is the detector's answer.
read_file_with_encoding(b, g) ==
    IF g # "None" /\ StrictDecode(b, g) # DecodeError
    THEN [text |-> StrictDecode(b, g), encoding |-> g, lossy |-> FALSE]
    ELSE TryEncodings(b, 1)

\* The answers the detector may give for a buffer.
WrittenGuesses == {"None", "utf-8"}
Guesses(b) == IF b.guess = "?" THEN WrittenGuesses ELSE {b.guess}

\* Faulty variant: the file is written back in the GB18030 encoding.
write_file_as_gb18030(text) == [enc |-> "gb18030", text |-> text, guess |-> "?"]

\* write_file_with_encoding(path, content, "utf-8"): the bytes that reach the file.
write_file_with_encoding(text) == [enc |-> "utf-8", text |-> text, guess |-> "?"]

\* open(path, "w") succeeded and f.write raised: the file is left truncated.
Truncated == [enc |-> "utf-8", text |-> <<"">>, guess |-> "?"]

\* ------------------------------------------------------------ the filesystem
\* The entries below the target directory: node 0 is the target directory itself,
\* each other node is a directory or a regular file with a parent and a name.
Nodes == 1 .. 7

NoName == [stem |-> "", suffix |-> ""]
Absent == [kind |-> "none", parent |-> 0, name |-> NoName, content |-> NoBytes]

Name(stem, suffix) == [stem |-> stem, suffix |-> suffix]

\* Code point order of the tokens and of the suffixes, as str comparison sees them.
StemRank(tok) ==
    CASE tok = "" -> 0 [] tok = "m" -> 1 [] tok = "r" -> 2 [] tok = "s" -> 3
      [] tok = "t" -> 4 [] tok = "u" -> 5 [] OTHER -> 6
SuffixRank(suf) ==
    CASE suf = "" -> 0 [] suf = ".TXT" -> 1 [] suf = ".md" -> 2 [] suf = ".txt" -> 3 [] OTHER -> 4
NameRank(name) == StemRank(name.stem) * 8 + SuffixRank(name.suffix)

\* Lexicographic order on sequences of integers (a proper prefix comes first).
RECURSIVE LexLess(_, _)
LexLess(a, b) ==
    IF b = <<>> THEN FALSE
    ELSE IF a = <<>> THEN TRUE
    ELSE IF Head(a) # Head(b) THEN Head(a) < Head(b)
    ELSE LexLess(Tail(a), Tail(b))

\* The elements of S in increasing order of their keys; key is a function on S
\* whose values are sequences of integers, distinct for distinct elements.
RECURSIVE SortByKey(_, _)
SortByKey(S, key) ==
    IF S = {} THEN <<>>
    ELSE LET m == CHOOSE x \in S : \A y \in S \ {x} : LexLess(key[x], key[y])
         IN <<m>> \o SortByKey(S \ {m}, key)

\* Path.parent and Path.name of a path relative to the target directory.
ParentPath(path) == SubSeq(path, 1, Len(path) - 1)
BaseName(path) == path[Len(path)]

\* The entry named `name` in directory node p (0 when there is none).
Child(f, p, name) ==
    IF \E n \in Nodes : f[n].kind # "none" /\ f[n].parent = p /\ f[n].name = name
    THEN CHOOSE n \in Nodes : f[n].kind # "none" /\ f[n].parent = p /\ f[n].name = name
    ELSE 0

\* The node a path names, walking down from node `from` (0 when nothing is there;
\* -1 stands for "no such directory" on the way).
RECURSIVE Walk(_, _, _)
Walk(f, from, path) ==
    IF path = <<>> THEN from
    ELSE LET c == Child(f, from, Head(path)) IN
         IF c = 0 THEN 0
         ELSE IF Len(path) > 1 /\ f[c].kind # "dir" THEN 0
         ELSE Walk(f, c, Tail(path))
Resolve(f, path) == Walk(f, 0, path)

\* The path of a node, relative to the target directory.
RECURSIVE PathOf(_, _)
PathOf(f, n) ==
    IF f[n].parent = 0 THEN <<f[n].name>>
    ELSE Append(PathOf(f, f[n].parent), f[n].name)

\* len(p.parts) up to the constant number of parts of the target directory.
Depth(path) == Len(path)

\* list.sort(key=lambda p: len(p.parts), reverse=True): a stable sort, so entries
\* of equal depth keep the order they had in seq.
RECURSIVE DepthSortFrom(_, _)
DepthSortFrom(seq, d) ==
    IF d < 0 THEN <<>>
    ELSE SelectSeq(seq, LAMBDA p : Depth(p) = d) \o DepthSortFrom(seq, d - 1)
MaxDepth(seq) ==
    IF seq = <<>> THEN 0
    ELSE CHOOSE d \in {Depth(seq[i]) : i \in DOMAIN seq} :
            \A i \in DOMAIN seq : Depth(seq[i]) <= d
\* Faulty variant: the sort by depth is left out.
SortAsScanned(seq) == seq

\* Faulty variant: a filter on the greatest depth in place of the sort.
OnlyDeepest(seq) == SelectSeq(seq, LAMBDA p : Depth(p) = MaxDepth(seq))

SortDeepestFirst(seq) == DepthSortFrom(seq, MaxDepth(seq))

\* ------------------------------------------------------- file_processor.py
\* Faulty variant: the suffix is not looked at.
InScopeAnySuffix(f, n) == f[n].kind = "file"

\* path.is_file() and path.suffix.lower() in self.extensions
InScope(f, n) == f[n].kind = "file" /\ lower(f[n].name.suffix) \in extensions

\* FileProcessor.scan_directory: the in-scope regular files, sorted by path.
scan_directory(f) ==
    LET S == {PathOf(f, n) : n \in {x \in Nodes : InScope(f, x)}}
        key == [p \in S |-> [i \in DOMAIN p |-> NameRank(p[i])]]
    IN SortByKey(S, key)

\* Faulty variant: the walk lists the target directory itself (the empty path)
\* before the directories below it.
rglob_dirs_and_self(f, ord) ==
    LET D == {n \in Nodes : f[n].kind = "dir"}
        RECURSIVE walkKey(_)
        walkKey(n) == IF f[n].parent = 0 THEN <<ord[n]>>
                      ELSE Append(walkKey(f[n].parent), ord[n])
        S == {PathOf(f, n) : n \in D}
        key == [p \in S |-> walkKey(Resolve(f, p))]
    IN <<<<>>>> \o SortByKey(S, key)

\* The directories as source_dir.rglob("*") lists them: a top-down walk in which
\* the filesystem decides the order of the entries of each directory; ord ranks
\* the directory nodes in that order.
rglob_dirs(f, ord) ==
    LET D == {n \in Nodes : f[n].kind = "dir"}
        RECURSIVE walkKey(_)
        walkKey(n) == IF f[n].parent = 0 THEN <<ord[n]>>
                      ELSE Append(walkKey(f[n].parent), ord[n])
        S == {PathOf(f, n) : n \in D}
        key == [p \in S |-> walkKey(Resolve(f, p))]
    IN SortByKey(S, key)

\* The orders in which the filesystem may enumerate the directory nodes.
EnumerationOrders(f) ==
    LET D == {n \in Nodes : f[n].kind = "dir"}
    IN {o \in [D -> 1 .. Cardinality(D)] : \A a, b \in D : a # b => o[a] # o[b]}

\* The record the run keeps of one turn of a loop: op is "file" for the loop
\* over files and "dir" for the loop over dirs; ok says the call returned, raised
\* that an I/O operation of it raised an exception (caught or not).
Event(op, path, node, to) ==
    [op |-> op, path |-> path, node |-> node, to |-> to, ok |-> FALSE, raised |-> FALSE,
     read |-> NoBytes, text |-> DecodeError, wrote |-> NoBytes, renamed |-> FALSE,
     replaced |-> 0]

NoEntry == [path |-> <<>>, content |-> "none", lines |-> 0, rename |-> FALSE, to |-> NoName]

\* One way a call can end: the tree it leaves, whether it returned (ok) or an
\* exception left it, how many I/O errors the environment raised in it (0 or 1),
\* the record of what it did, and what it printed.
Outcome(g, ok, k, ev, printed, entry) ==
    [fs |-> g, ok |-> ok, fault |-> k, ev |-> ev, printed |-> printed, entry |-> entry]

\* Faulty variant: the exception is swallowed and the call returns.
RaisedAndSwallowed(g, ev, k) ==
    Outcome(g, TRUE, k, [ev EXCEPT !.raised = TRUE], FALSE, NoEntry)

\* An exception leaves process_file: the call did not return.
Raised(g, ev, k) == Outcome(g, FALSE, k, [ev EXCEPT !.raised = TRUE], FALSE, NoEntry)

\* The call returns.
Returned(g, ev) == Outcome(g, TRUE, 0, [ev EXCEPT !.ok = TRUE], FALSE, NoEntry)

\* Faulty variant: the target is never found to exist.
existsNever(f, path) == FALSE

\* Path.exists()
exists(f, path) == Resolve(f, path) # 0

\* Path.rename(new_path) on node n of tree f: the entry takes its new name and a
\* regular file already at the target (node t) is replaced, as os.rename does.
Renamed(f, n, new_name, t) ==
    [x \in Nodes |-> IF x = n THEN [f[x] EXCEPT !.name = new_name]
                     ELSE IF x = t THEN Absent ELSE f[x]]

\* Faulty variant: every line of the shorter text counts as changed.
changed_lines_all(a, b) == IF Len(a) < Len(b) THEN Len(a) ELSE Len(b)

\* sum(1 for o, c in zip(a, b) if o != c): zip stops at the end of the shorter
\* list.
RECURSIVE changed_lines(_, _)
changed_lines(a, b) ==
    IF a = <<>> \/ b = <<>> THEN 0
    ELSE (IF Head(a) # Head(b) THEN 1 ELSE 0) + changed_lines(Tail(a), Tail(b))

\* FileProcessor._log_dry_run(source, target) on tree f: the set of ways it can
\* end.  It always returns: an error of the read is caught and printed
\* ("Content: Error reading file").  The entry is printed when it holds a change.
log_dry_run(f, path, new_path, rf, cv, mayFault) ==
    LET n == Resolve(f, path)
        rename == rf /\ BaseName(path) # BaseName(new_path)
        ev0 == Event("file", path, n, new_path)
        Out(k, what, lines, ev) ==
            Outcome(f, TRUE, k, [ev EXCEPT !.ok = TRUE, !.raised = (what = "error")],
                    what # "none" \/ rename,
                    [path |-> path, content |-> what, lines |-> lines, rename |-> rename,
                     to |-> BaseName(new_path)])
    IN IF ~cv THEN {Out(0, "none", 0, ev0)}
       ELSE IF n = 0 \/ f[n].kind # "file" THEN {Out(0, "error", 0, ev0)}
       ELSE (IF mayFault THEN {Out(1, "error", 0, ev0)} ELSE {})
            \cup { LET content == read_file_with_encoding(f[n].content, g).text
                       converted == convert(content)
                       evr == [ev0 EXCEPT !.read = f[n].content, !.text = content]
                   IN IF content # converted
                      THEN Out(0, "changed", changed_lines(content, converted), evr)
                      ELSE Out(0, "none", 0, evr)
                   : g \in Guesses(f[n].content)}

\* Faulty variant: the file is renamed first and its content is converted
\* afterwards through the path it no longer has, so that the read raises.
process_file_rename_first(f, path, dry, rf, cv, mayFault) ==
    LET n == Resolve(f, path)
        new_path == IF rf THEN Append(ParentPath(path), convert_filename(BaseName(path)))
                    ELSE path
        ev0 == Event("file", path, n, new_path)
        t == Resolve(f, new_path)
    IN IF dry THEN log_dry_run(f, path, new_path, rf, cv, mayFault)
       ELSE IF n = 0 THEN {Raised(f, ev0, 0)}
       ELSE IF new_path # path /\ ~(t # 0 /\ f[t].kind = "dir")
       THEN LET g == Renamed(f, n, BaseName(new_path), t)
                evn == [ev0 EXCEPT !.renamed = TRUE, !.replaced = t]
            IN IF cv THEN {Raised(g, evn, 0)} ELSE {Returned(g, evn)}
       ELSE IF cv
       THEN {LET content == read_file_with_encoding(f[n].content, d).text
                 out == write_file_with_encoding(convert(content))
             IN Returned([f EXCEPT ![n].content = out],
                         [ev0 EXCEPT !.read = f[n].content, !.text = content, !.wrote = out])
             : d \in Guesses(f[n].content)}
       ELSE {Returned(f, ev0)}

\* FileProcessor.process_file(file_path, dry_run) on tree f with rename_files = rf
\* and convert_content = cv: the set of ways the call can end.  The environment
\* may fail one I/O operation of it while mayFault.
process_file(f, path, dry, rf, cv, mayFault) ==
    LET n == Resolve(f, path)
        new_path == IF rf THEN Append(ParentPath(path), convert_filename(BaseName(path)))
                    ELSE path
        ev0 == Event("file", path, n, new_path)
        \* lines 127-132: rename if needed, then return
        RenameStep(g, ev) ==
            IF rf /\ new_path # path
            THEN LET t == Resolve(g, new_path) IN
                 IF n = 0 \/ (t # 0 /\ g[t].kind = "dir")
                 THEN {Raised(g, ev, 0)}
                 ELSE {Returned(Renamed(g, n, BaseName(new_path), t),
                                [ev EXCEPT !.renamed = TRUE, !.replaced = t])}
                      \cup (IF mayFault THEN {Raised(g, ev, 1)} ELSE {})
            ELSE {Returned(g, ev)}
        \* lines 118-125: read, convert, write as UTF-8
        ContentStep ==
            IF n = 0 \/ f[n].kind # "file"
            THEN {Raised(f, ev0, 0)}
            ELSE (IF mayFault THEN {Raised(f, ev0, 1)} ELSE {})
                 \cup UNION {
                    LET content == read_file_with_encoding(f[n].content, g).text
                        converted_content == convert(content)
                        out == write_file_with_encoding(converted_content)
                        evr == [ev0 EXCEPT !.read = f[n].content, !.text = content]
                    IN (IF mayFault
                        THEN {Raised(f, evr, 1),
                              Raised([f EXCEPT ![n].content = Truncated],
                                     [evr EXCEPT !.wrote = Truncated], 1)}
                        ELSE {})
                       \cup RenameStep([f EXCEPT ![n].content = out],
                                       [evr EXCEPT !.wrote = out])
                    : g \in Guesses(f[n].content)}
    IN IF dry THEN log_dry_run(f, path, new_path, rf, cv, mayFault)
       ELSE IF cv THEN ContentStep
       ELSE RenameStep(f, ev0)

\* Faulty variant: the directory pass ignores dry_run.
renames_directories_in_dry_run(rf, dry) == rf

\* process_directory, line 87: the directories are renamed after the files in
\* an apply run with renaming enabled.
renames_directories(rf, dry) == rf /\ ~dry

\* One turn of the loop of FileProcessor._rename_directories on tree f: the set
\* of ways it can end.
rename_directory(f, path, mayFault) ==
    LET n == Resolve(f, path)
        new_name == convert_dirname(BaseName(path))
        new_path == Append(ParentPath(path), new_name)
        ev == Event("dir", path, n, new_path)
    IN IF new_name # BaseName(path)
       THEN IF ~exists(f, new_path)
            THEN IF n = 0
                 THEN {Raised(f, ev, 0)}
                 ELSE {Returned(Renamed(f, n, new_name, 0), [ev EXCEPT !.renamed = TRUE])}
                      \cup (IF mayFault THEN {Raised(f, ev, 1)} ELSE {})
            ELSE {Returned(f, ev)}
       ELSE {Returned(f, ev)}

\* -------------------------------------------------------------- backup.py
\* Faulty variant: the tree is copied before the destination is checked.
create_backup_copy_first(f, dest_exists) ==
    [error |-> dest_exists, made |-> TRUE, tree |-> f]

\* create_backup(source_dir, backup_dir): FileExistsError when the destination
\* exists, else the copy of the tree.
create_backup(f, dest_exists) ==
    IF dest_exists THEN [error |-> TRUE, made |-> FALSE, tree |-> [n \in Nodes |-> Absent]]
    ELSE [error |-> FALSE, made |-> TRUE, tree |-> f]

\* --------------------------------------------------------------- the trees
Dir(parent, name) == [kind |-> "dir", parent |-> parent, name |-> name, content |-> NoBytes]
File(parent, name, bytes) == [kind |-> "file", parent |-> parent, name |-> name, content |-> bytes]

\* The byte buffers the files of the trees hold.
GbSimplified == [enc |-> "gb18030", text |-> <<"s">>, guess |-> "gb18030"]
GbTwoLines == [enc |-> "gb18030", text |-> <<"t", "s">>, guess |-> "None"]
Utf8Traditional == [enc |-> "utf-8", text |-> <<"t">>, guess |-> "utf-8"]
Undecodable == [enc |-> "raw", text |-> <<"r">>, guess |-> "None"]
EmptyFile == [enc |-> "utf-8", text |-> <<"">>, guess |-> "None"]

\* The shape the trees are cut from: nodes 1, 2 are directories in the target
\* directory and 3 is a directory in 1; 4, 5 are files in the target directory,
\* 6 is a file in 1 and 7 a file in 3 or in 1.  Each node is absent or one of
\* its options.
SlotOptions(n) ==
    {Absent} \cup
    CASE n = 1 -> {Dir(0, Name("s", "")), Dir(0, Name("t", ""))}
      [] n = 2 -> {Dir(0, Name("t", "")), Dir(0, Name("u", "")), Dir(0, Name("t", ".txt"))}
      [] n = 3 -> {Dir(1, Name("s", ""))}
      [] n = 4 -> {File(0, Name("s", ".txt"), GbSimplified),
                   File(0, Name("s", ".txt"), Undecodable),
                   File(0, Name("s", ".md"), GbSimplified),
                   File(0, Name("s", ".TXT"), GbSimplified)}
      [] n = 5 -> {File(0, Name("t", ".txt"), Utf8Traditional),
                   File(0, Name("u", ".txt"), GbTwoLines)}
      [] n = 6 -> {File(1, Name("s", ".txt"), EmptyFile),
                   File(1, Name("s", ".md"), GbSimplified),
                   File(1, Name("u", ".txt"), GbTwoLines)}
      [] n = 7 -> {File(3, Name("s", ".txt"), GbSimplified),
                   File(1, Name("t", ".txt"), Utf8Traditional)}

EmptyTree == [n \in Nodes |-> Absent]

\* A tree: every entry lies in a directory that exists, no directory holds two
\* entries of one name, and there are at most MaxEntries entries.
WellFormed(f) ==
    /\ \A n \in Nodes : f[n].kind # "none" /\ f[n].parent # 0 => f[f[n].parent].kind = "dir"
    /\ \A a, b \in Nodes :
          (a # b /\ f[a].kind # "none" /\ f[b].kind # "none" /\ f[a].parent = f[b].parent)
             => f[a].name # f[b].name
    /\ Cardinality({n \in Nodes : f[n].kind # "none"}) <= MaxEntries

Trees ==
    {f \in {<<e1, e2, e3, e4, e5, e6, e7>> :
                e1 \in SlotOptions(1), e2 \in SlotOptions(2), e3 \in SlotOptions(3),
                e4 \in SlotOptions(4), e5 \in SlotOptions(5), e6 \in SlotOptions(6),
                e7 \in SlotOptions(7)} : WellFormed(f)}

\* ------------------------------------------------------------------- state
VARIABLES
    fs,               \* the tree below the target directory
    fs0,              \* the tree as main() found it
    target,           \* what args.directory names: "dir", "file" or "missing"
    pc,               \* where main() is
    rename_files,     \* FileProcessor.rename_files  (not args.no_rename)
    convert_content,  \* FileProcessor.convert_content  (not args.no_content)
    dry_run,          \* the dry_run argument of process_directory
    files,            \* process_directory: the list the loop runs over
    fi,               \* ... and the index of its next element
    dirs,             \* _rename_directories: the list the loop runs over
    di,               \* ... and the index of its next element
    success_count,
    failure_count,
    exit_code,        \* what main() returned (-1 while it has not)
    message,          \* the last line main() printed
    backup,           \* [made, tree]: the copy create_backup made
    faults,           \* I/O errors raised so far
    log,              \* the record of every turn of the two loops
    report,           \* what _log_dry_run printed
    source_dir,       \* the name of the target directory itself
    call,             \* a function called on its own: its name and arguments
    returned          \* ... and what it returned

vars == <<fs, fs0, target, pc, rename_files, convert_content, dry_run, files, fi,
          dirs, di, success_count, failure_count, exit_code, message, backup, faults,
          log, report, source_dir, call, returned>>

\* The name of the target directory: a Simplified name, which the converter
\* would change.
TargetName == Name("s", "")

\* No function is called on its own in a run of main().
NoCall == [fn |-> "none"]

\* main() has not started.
NotStarted ==
    /\ fs0 = fs
    /\ pc = "start"
    /\ rename_files = FALSE
    /\ convert_content = FALSE
    /\ dry_run = FALSE
    /\ files = <<>>
    /\ fi = 1
    /\ dirs = <<>>
    /\ di = 1
    /\ success_count = 0
    /\ failure_count = 0
    /\ exit_code = -1
    /\ message = ""
    /\ backup = [made |-> FALSE, tree |-> EmptyTree]
    /\ faults = 0
    /\ log = <<>>
    /\ report = <<>>
    /\ source_dir = TargetName

Init ==
    /\ target \in {"dir", "file", "missing"}
    /\ fs \in (IF target = "dir" THEN Trees ELSE {EmptyTree})
    /\ NotStarted
    /\ call = NoCall
    /\ returned = NoCall

\* ------------------------------------------------------------- cli.py main
\* What the user may type at the prompt.
Responses == {"y", "YES", "n", ""}

\* str.lower() on a response.
lower_response(r) == IF r = "YES" THEN "yes" ELSE r

\* main returns code after printing msg.
Exit(code, msg) ==
    /\ pc' = "exit"
    /\ exit_code' = code
    /\ message' = msg

\* Faulty variant: the failure count does not reach the exit status.
exit_status_always_zero(failed) == 0

\* main, line 172: return 0 if failed == 0 else 1
exit_status(failed) == IF failed = 0 THEN 0 ELSE 1

\* main, lines 100-117: the target directory is validated and the FileProcessor
\* is built from --no-rename and --no-content.
MainValidate ==
    /\ pc = "start"
    /\ IF target = "missing"
       THEN /\ Exit(1, "Error: Directory not found")
            /\ UNCHANGED <<rename_files, convert_content>>
       ELSE IF target # "dir"
       THEN /\ Exit(1, "Error: Not a directory")
            /\ UNCHANGED <<rename_files, convert_content>>
       ELSE /\ pc' = "scan"
            /\ \E no_rename, no_content \in BOOLEAN :
                  /\ rename_files' = ~no_rename
                  /\ convert_content' = ~no_content
            /\ UNCHANGED <<exit_code, message>>
    /\ UNCHANGED <<fs, fs0, target, dry_run, files, fi, dirs, di, success_count,
                   failure_count, backup, faults, log, report>>
    /\ UNCHANGED <<source_dir, call, returned>>

\* main, lines 119-131: the scan for the summary; no matching file ends the run.
MainScan ==
    /\ pc = "scan"
    /\ IF scan_directory(fs) = <<>>
       THEN Exit(0, "No matching files found.")
       ELSE pc' = "mode" /\ UNCHANGED <<exit_code, message>>
    /\ UNCHANGED <<fs, fs0, target, rename_files, convert_content, dry_run, files, fi,
                   dirs, di, success_count, failure_count, backup, faults, log, report>>
    /\ UNCHANGED <<source_dir, call, returned>>

\* process_directory, lines 70-76: the counters, the scan and the sort by depth.
EnterProcessDirectory(dry) ==
    /\ dry_run' = dry
    /\ success_count' = 0
    /\ failure_count' = 0
    /\ files' = SortDeepestFirst(scan_directory(fs))
    /\ fi' = 1
    /\ pc' = "files"

\* main, lines 133-140 and 142-147: --dry-run goes straight to
\* process_directory(dry_run=True); otherwise the user confirms unless --yes.
MainMode ==
    /\ pc = "mode"
    /\ \E args_dry_run \in BOOLEAN :
          IF args_dry_run
          THEN /\ EnterProcessDirectory(TRUE)
               /\ message' = "[DRY RUN] The following changes would be made:"
               /\ UNCHANGED exit_code
          ELSE \E yes \in BOOLEAN, response \in Responses :
                  IF ~yes /\ lower_response(response) \notin {"y", "yes"}
                  THEN /\ Exit(0, "Aborted.")
                       /\ UNCHANGED <<dry_run, success_count, failure_count, files, fi>>
                  ELSE /\ pc' = "backup"
                       /\ UNCHANGED <<exit_code, message, dry_run, success_count,
                                      failure_count, files, fi>>
    /\ UNCHANGED <<fs, fs0, target, rename_files, convert_content, dirs, di, backup,
                   faults, log, report>>
    /\ UNCHANGED <<source_dir, call, returned>>

\* main, lines 149-165: create_backup when --backup (FileExistsError ends the run
\* with 1, any other error of copytree is not caught), then
\* process_directory(dry_run=False).
MainBackup ==
    /\ pc = "backup"
    /\ \E args_backup \in BOOLEAN, dest_exists \in BOOLEAN, copy_fails \in BOOLEAN :
          /\ ~args_backup => ~dest_exists /\ ~copy_fails
          /\ dest_exists => ~copy_fails
          /\ copy_fails => faults < MaxFaults
          /\ IF ~args_backup
             THEN /\ EnterProcessDirectory(FALSE)
                  /\ UNCHANGED <<exit_code, message, backup, faults>>
             ELSE IF copy_fails
             THEN /\ pc' = "crashed"
                  /\ faults' = faults + 1
                  /\ UNCHANGED <<exit_code, message, dry_run, success_count, failure_count,
                                 files, fi, backup>>
             ELSE LET b == create_backup(fs, dest_exists) IN
                  /\ backup' = [made |-> b.made, tree |-> b.tree]
                  /\ IF b.error
                     THEN /\ Exit(1, "Error: Backup directory already exists")
                          /\ UNCHANGED <<dry_run, success_count, failure_count, files, fi>>
                     ELSE /\ EnterProcessDirectory(FALSE)
                          /\ message' = "Backup created at"
                          /\ UNCHANGED exit_code
                  /\ UNCHANGED faults
    /\ UNCHANGED <<fs, fs0, target, rename_files, convert_content, dirs, di, log, report>>
    /\ UNCHANGED <<source_dir, call, returned>>

\* process_directory, lines 78-84: one turn of the loop over files; an exception
\* that leaves process_file is caught and counted.
ProcessFile ==
    /\ pc = "files"
    /\ fi <= Len(files)
    /\ \E o \in process_file(fs, files[fi], dry_run, rename_files, convert_content,
                             faults < MaxFaults) :
          /\ fs' = o.fs
          /\ faults' = faults + o.fault
          /\ success_count' = IF o.ok THEN success_count + 1 ELSE success_count
          /\ failure_count' = IF o.ok THEN failure_count ELSE failure_count + 1
          /\ log' = Append(log, o.ev)
          /\ report' = IF o.printed THEN Append(report, o.entry) ELSE report
    /\ fi' = fi + 1
    /\ UNCHANGED <<fs0, target, pc, rename_files, convert_content, dry_run, files, dirs,
                   di, exit_code, message, backup>>
    /\ UNCHANGED <<source_dir, call, returned>>

\* process_directory, lines 86-88, and _rename_directories, lines 165-169: after
\* the last file, the directories are listed and sorted deepest first (apply mode
\* with renaming only).
FilesDone ==
    /\ pc = "files"
    /\ fi > Len(files)
    /\ IF renames_directories(rename_files, dry_run)
       THEN /\ \E ord \in EnumerationOrders(fs) :
                  dirs' = SortDeepestFirst(rglob_dirs(fs, ord))
            /\ di' = 1
            /\ pc' = "dirs"
       ELSE /\ pc' = "return"
            /\ UNCHANGED <<dirs, di>>
    /\ UNCHANGED <<fs, fs0, target, rename_files, convert_content, dry_run, files, fi,
                   success_count, failure_count, exit_code, message, backup, faults, log,
                   report>>
    /\ UNCHANGED <<source_dir, call, returned>>

\* _rename_directories, lines 171-177: one turn of the loop over dirs; an error
\* of Path.rename is caught nowhere and ends main() with a traceback.  The loop
\* body treats every path of the list alike, the target directory's own path
\* included if the list held it.
RenameDirectory ==
    /\ pc = "dirs"
    /\ di <= Len(dirs)
    /\ IF dirs[di] = <<>>
       THEN \* the path of the target directory itself: its name is source_dir
            /\ source_dir' = convert_dirname(source_dir)
            /\ log' = Append(log, [Event("dir", <<>>, 0, <<>>) EXCEPT
                                      !.ok = TRUE,
                                      !.renamed = (convert_dirname(source_dir) # source_dir)])
            /\ UNCHANGED <<fs, faults, pc>>
       ELSE /\ \E o \in rename_directory(fs, dirs[di], faults < MaxFaults) :
                  /\ fs' = o.fs
                  /\ faults' = faults + o.fault
                  /\ log' = Append(log, o.ev)
                  /\ pc' = IF o.ok THEN pc ELSE "crashed"
            /\ UNCHANGED source_dir
    /\ di' = di + 1
    /\ UNCHANGED <<fs0, target, rename_files, convert_content, dry_run, files, fi, dirs,
                   success_count, failure_count, exit_code, message, backup, report>>
    /\ UNCHANGED <<call, returned>>

\* _rename_directories returns once the list is exhausted.
DirsDone ==
    /\ pc = "dirs"
    /\ di > Len(dirs)
    /\ pc' = "return"
    /\ UNCHANGED <<fs, fs0, target, rename_files, convert_content, dry_run, files, fi,
                   dirs, di, success_count, failure_count, exit_code, message, backup,
                   faults, log, report>>
    /\ UNCHANGED <<source_dir, call, returned>>

\* process_directory line 90 and main, lines 140 and 167-172: the counts come
\* back; a dry run returns 0, an apply run prints the summary and returns 1 when
\* a file failed.
MainReturn ==
    /\ pc = "return"
    /\ IF dry_run
       THEN Exit(0, message)
       ELSE Exit(exit_status(failure_count), "Conversion complete:")
    /\ UNCHANGED <<fs, fs0, target, rename_files, convert_content, dry_run, files, fi,
                   dirs, di, success_count, failure_count, backup, faults, log, report>>
    /\ UNCHANGED <<source_dir, call, returned>>

Next ==
    \/ MainValidate
    \/ MainScan
    \/ MainMode
    \/ MainBackup
    \/ ProcessFile
    \/ FilesDone
    \/ RenameDirectory
    \/ DirsDone
    \/ MainReturn

Spec == Init /\ [][Next]_vars

\* --------------------------------------- read_file_with_encoding on its own
mainVars == <<fs, fs0, target, pc, rename_files, convert_content, dry_run, files, fi,
              dirs, di, success_count, failure_count, exit_code, message, backup,
              faults, log, report, source_dir>>

\* The texts of at most MaxLines lines, and the empty string.
Texts ==
    {<<"">>} \cup UNION {[1 .. k -> {"s", "t"}] : k \in 1 .. MaxLines}

\* What from_bytes(raw_data).best() may answer: nothing, a candidate, or a
\* single-byte codec.
DetectorAnswers ==
    {"None", "latin_1"} \cup {CHINESE_ENCODINGS[i] : i \in DOMAIN CHINESE_ENCODINGS}

\* The byte buffers a file may hold, each with an answer of the detector.
Buffers ==
    {[enc |-> e, text |-> t, guess |-> g] :
        e \in {"gb18030", "big5", "utf-8", "utf-8+gb"}, t \in Texts, g \in DetectorAnswers}
    \cup {[enc |-> "raw", text |-> <<"r">>, guess |-> g] : g \in DetectorAnswers}

ReadInit ==
    /\ target = "missing"
    /\ fs = EmptyTree
    /\ NotStarted
    /\ call \in {[fn |-> "read_file_with_encoding", raw_data |-> b] : b \in Buffers}
    /\ returned = NoCall

\* read_file_with_encoding(file_path), lines 66-90, on a file holding call.raw_data.
ReadFile ==
    /\ call.fn = "read_file_with_encoding"
    /\ returned = NoCall
    /\ \E g \in Guesses(call.raw_data) :
          returned' = read_file_with_encoding(call.raw_data, g)
    /\ UNCHANGED mainVars
    /\ UNCHANGED call

ReadNext ==
    \/ ReadFile

ReadSpec == ReadInit /\ [][ReadNext]_vars

\* ------------------------------------------------------------- properties
FileEvents == SelectSeq(log, LAMBDA e : e.op = "file")
DirEvents == SelectSeq(log, LAMBDA e : e.op = "dir")

\* Path a is a proper ancestor of path b.
IsAncestor(a, b) == Len(a) < Len(b) /\ SubSeq(b, 1, Len(a)) = a

\* The run is an apply run inside or past process_directory.
ApplyRun == files # <<>> /\ ~dry_run

\* C1: files are processed in order of decreasing depth, a directory is visited
\* before each of its ancestors (and all directories are visited once the pass
\* is over), and every file is processed before the first directory is visited.
C1_DepthOrdering ==
    /\ \A i, j \in DOMAIN log :
          (i < j /\ log[i].op = "file" /\ log[j].op = "file")
             => Depth(log[i].path) >= Depth(log[j].path)
    /\ \A i, j \in DOMAIN log :
          (i < j /\ log[i].op = "dir" /\ log[j].op = "dir")
             => ~IsAncestor(log[i].path, log[j].path)
    /\ \A i, j \in DOMAIN log : i < j => ~(log[i].op = "dir" /\ log[j].op = "file")
    /\ (\E i \in DOMAIN log : log[i].op = "dir")
          => /\ Len(FileEvents) = Len(files)
             /\ \A k \in DOMAIN files : FileEvents[k].path = files[k]
    /\ (pc = "return" /\ ApplyRun /\ rename_files)
          => {log[i].node : i \in {k \in DOMAIN log : log[k].op = "dir"}}
                = {n \in Nodes : fs[n].kind = "dir"}

\* C1 happens: a deeper file was processed before a shallower one, and a
\* directory was renamed before its parent was.
C1_Witness ==
    /\ \E i, j \in DOMAIN log :
          /\ i < j /\ log[i].op = "file" /\ log[j].op = "file"
          /\ Depth(log[i].path) > Depth(log[j].path)
    /\ \E i, j \in DOMAIN log :
          /\ i < j /\ log[i].op = "dir" /\ log[j].op = "dir"
          /\ IsAncestor(log[j].path, log[i].path)
          /\ log[i].renamed /\ log[j].renamed

\* C2: in a dry run the tree (the set of paths, every name, every file's bytes)
\* stays what it was before the call, and nothing is copied.
C2_DryRunFrame == dry_run => (fs = fs0 /\ ~backup.made)

\* C2 happens: a finished dry run that reported a content change and a rename,
\* over a tree with a directory whose name conversion would change.
C2_Witness ==
    /\ dry_run /\ pc = "exit"
    /\ \E i \in DOMAIN report : report[i].rename
    /\ \E i \in DOMAIN report : report[i].content = "changed"
    /\ \E n \in Nodes : fs[n].kind = "dir" /\ convert_dirname(fs[n].name) # fs[n].name

\* The number of turns of the loop over files that satisfy P.
CountFiles(P(_)) == Cardinality({i \in DOMAIN log : log[i].op = "file" /\ P(log[i])})

\* Every file of the list so far has been attempted, in order, and the loop is
\* left only when the list is exhausted.
AllAttempted ==
    /\ Len(FileEvents) = fi - 1
    /\ \A k \in 1 .. (fi - 1) : FileEvents[k].path = files[k]
    /\ pc # "files" => fi = Len(files) + 1

\* C3 as stated: in dry-run mode as in apply mode, a file one of whose I/O
\* operations raised counts as a failure and not as a success.
C3_Original ==
    /\ failure_count = CountFiles(LAMBDA e : e.raised)
    /\ success_count = CountFiles(LAMBDA e : ~e.raised)

\* C3 amended: in apply mode a file whose read, write or rename raised counts as
\* a failure and not as a success; in dry-run mode the error of a read is caught
\* inside _log_dry_run and the file counts as a success; in both modes every
\* remaining file is still attempted.
C3_FailureIsolation ==
    /\ ~dry_run => /\ failure_count = CountFiles(LAMBDA e : e.raised)
                   /\ success_count = CountFiles(LAMBDA e : ~e.raised)
    /\ dry_run => /\ failure_count = 0
                  /\ success_count = CountFiles(LAMBDA e : TRUE)
    /\ AllAttempted

\* C3 happens: in an apply run a file failed and a later file was processed.
C3_Witness ==
    /\ ApplyRun
    /\ \E i, j \in DOMAIN log :
          /\ i < j /\ log[i].op = "file" /\ log[j].op = "file"
          /\ log[i].raised /\ log[j].ok
    /\ failure_count = 1 /\ success_count >= 1

\* C4 as stated: once process_directory has started, no failure of a filesystem
\* operation leaves it as an exception; main gets the counts back.
C4_NeverAborts == files # <<>> => pc # "crashed"

\* The next turn of the loop over dirs meets a collision: the converted name
\* differs and an entry exists at the target path.
DirCollision ==
    /\ pc = "dirs" /\ di <= Len(dirs)
    /\ LET p == dirs[di]
           q == Append(ParentPath(p), convert_dirname(BaseName(p)))
       IN q # p /\ Resolve(fs, q) # 0

\* C5: a turn of the loop over dirs that meets a collision renames nothing: the
\* directory and the entry at the target stay where they are, contents included.
C5_CollisionSafety == [][DirCollision => (fs' = fs /\ pc' = "dirs")]_vars

\* C5 happens: two sibling directories convert to one name, the first was
\* renamed and the second was skipped and is still there under its old name.
C5_Witness ==
    \E i, j \in DOMAIN log :
       /\ i < j /\ log[i].op = "dir" /\ log[j].op = "dir"
       /\ log[i].renamed /\ log[i].to = log[j].to /\ log[i].path # log[j].path
       /\ log[j].ok /\ ~log[j].renamed
       /\ fs[log[j].node].kind = "dir" /\ fs[log[j].node].name = BaseName(log[j].path)
       /\ fs[log[i].node].kind = "dir" /\ fs[log[i].node].name = BaseName(log[i].to)

\* C6: when process_directory returns, every path of the scan has been attempted
\* exactly once, success_count + failure_count is the number of scanned files and
\* success_count is the number of calls of process_file that raised nothing.
C6_ExactlyOnce ==
    pc = "return" =>
       LET scanned == scan_directory(fs0) IN
       /\ Len(FileEvents) = Len(scanned)
       /\ \A k \in DOMAIN scanned :
             Cardinality({j \in DOMAIN FileEvents : FileEvents[j].path = scanned[k]}) = 1
       /\ success_count + failure_count = Len(scanned)
       /\ success_count = CountFiles(LAMBDA e : e.ok)

\* C6 happens: a run over several files returned with successes and a failure.
C6_Witness ==
    /\ pc = "return" /\ Len(files) >= 3
    /\ \E i, j \in DOMAIN files : Depth(files[i]) # Depth(files[j])
    /\ failure_count >= 1 /\ success_count >= 1

BackupExists == "Error: Backup directory already exists"

\* C7: main returns 1 when the target is no directory, when the backup
\* destination exists, or when a file failed in the apply pass, and 0 otherwise.
C7_ExitStatus ==
    pc = "exit" =>
       exit_code = IF \/ target # "dir"
                      \/ message = BackupExists
                      \/ (ApplyRun /\ CountFiles(LAMBDA e : ~e.ok) > 0)
                   THEN 1 ELSE 0

\* C7 happens: an apply run ended with 1 because one file failed while others
\* succeeded.
C7_Witness ==
    /\ pc = "exit" /\ exit_code = 1 /\ message = "Conversion complete:"
    /\ failure_count >= 1 /\ success_count >= 1

\* C8: with an invalid target, or with a backup destination that exists, main
\* ends with 1 and process_directory was never entered: nothing is written,
\* renamed or copied.
C8_ConfigAbort ==
    (target # "dir" \/ message = BackupExists) =>
       /\ pc \in {"start", "exit"}
       /\ pc = "exit" => exit_code = 1
       /\ files = <<>> /\ log = <<>> /\ report = <<>>
       /\ fs = fs0
       /\ ~backup.made

\* C8 happens: the backup destination existed for a tree with files to convert.
C8_Witness ==
    /\ pc = "exit" /\ message = BackupExists
    /\ scan_directory(fs) # <<>>
    /\ rename_files /\ convert_content

\* The turn of the loop over files is a success of an apply run that converts
\* contents.
ContentSuccess(e) == e.op = "file" /\ e.ok /\ ~dry_run /\ convert_content

\* C9: in apply mode with content conversion, every file counted as a success
\* was overwritten with the UTF-8 encoding of convert(decoded original), also
\* when convert changed nothing.
C9_Utf8Rewrite ==
    /\ \A i \in DOMAIN log :
          ContentSuccess(log[i]) =>
             /\ log[i].read # NoBytes
             /\ log[i].text \in {read_file_with_encoding(log[i].read, g).text
                                    : g \in Guesses(log[i].read)}
             /\ log[i].wrote.enc = "utf-8"
             /\ log[i].wrote.text = convert(log[i].text)
    /\ (log # <<>> /\ ContentSuccess(log[Len(log)]))
          => fs[log[Len(log)].node].content = log[Len(log)].wrote

\* C9 happens: a file that was not UTF-8 and whose text the conversion leaves
\* unchanged was rewritten as UTF-8 and counted as a success.
C9_Witness ==
    \E i \in DOMAIN log :
       /\ ContentSuccess(log[i])
       /\ convert(log[i].text) = log[i].text
       /\ log[i].read.enc # "utf-8" /\ log[i].wrote.enc = "utf-8"
       /\ success_count >= 1

\* The paths of the regular files of the first tree whose suffix is .txt in any
\* letter case.
TxtPaths ==
    {PathOf(fs0, n) : n \in {x \in Nodes : fs0[x].kind = "file"
                                            /\ fs0[x].name.suffix \in {".txt", ".TXT"}}}

\* C10: the scan returns exactly the regular files with a .txt suffix (in any
\* letter case), and a file outside that set keeps its content and its own name.
C10_Scope ==
    /\ files # <<>> => {files[i] : i \in DOMAIN files} = TxtPaths
    /\ message = "No matching files found." => TxtPaths = {}
    /\ pc \in {"mode", "backup"} => TxtPaths # {}
    /\ \A n \in Nodes :
          (fs0[n].kind = "file" /\ fs0[n].name.suffix \notin {".txt", ".TXT"})
             => /\ fs[n].kind = "file"
                /\ fs[n].name = fs0[n].name
                /\ fs[n].content = fs0[n].content

\* C10 happens: an apply run is over that converted and renamed a file and
\* renamed the directory holding an out-of-scope file.
C10_Witness ==
    /\ pc = "exit" /\ ApplyRun /\ rename_files /\ convert_content
    /\ \E i \in DOMAIN log : log[i].op = "file" /\ log[i].renamed /\ log[i].wrote # NoBytes
    /\ \E n \in Nodes :
          /\ fs0[n].kind = "file" /\ fs0[n].name.suffix \notin {".txt", ".TXT"}
          /\ fs0[n].parent # 0
          /\ fs[fs0[n].parent].name # fs0[fs0[n].parent].name
    /\ \E n \in Nodes : fs0[n].kind = "file" /\ fs0[n].name.suffix = ".TXT"

\* C11: in an apply run, with renaming disabled every entry keeps its kind, its
\* parent and its name (only contents are rewritten); with content conversion
\* disabled no file is read or written and every file is still there with the
\* bytes it had (only names change).
C11_FlagFrames ==
    ApplyRun =>
       /\ ~rename_files =>
             /\ \A n \in Nodes : /\ fs[n].kind = fs0[n].kind
                                 /\ fs[n].parent = fs0[n].parent
                                 /\ fs[n].name = fs0[n].name
             /\ \A i \in DOMAIN log : ~log[i].renamed
       /\ ~convert_content =>
             /\ \A i \in DOMAIN log : log[i].read = NoBytes /\ log[i].wrote = NoBytes
             /\ \A n \in Nodes : fs0[n].kind = "file" =>
                   (fs[n].kind = "file" /\ fs[n].content = fs0[n].content)

\* C12: in an apply run, the file path about to be taken from the sorted file
\* list names an existing regular file and the directory path about to be
\* taken from the sorted directory list names an existing directory, whatever
\* was renamed before; no turn of either loop has met a missing path.
C12_QueuedPathsExist ==
    ApplyRun =>
       /\ (pc = "files" /\ fi <= Len(files))
             => /\ Resolve(fs, files[fi]) # 0
                /\ fs[Resolve(fs, files[fi])].kind = "file"
       /\ (pc = "dirs" /\ di <= Len(dirs))
             => /\ Resolve(fs, dirs[di]) # 0
                /\ fs[Resolve(fs, dirs[di])].kind = "dir"
       /\ \A i \in DOMAIN log : log[i].node # 0

\* C12 happens: a file and then a directory have been renamed, and the next
\* directory path of the list, an ancestor of the renamed directory, is about
\* to be taken and still resolves.
C12_Witness ==
    /\ ApplyRun /\ pc = "dirs" /\ di <= Len(dirs)
    /\ \E i \in DOMAIN log : log[i].op = "file" /\ log[i].renamed
    /\ \E i \in DOMAIN log : /\ log[i].op = "dir" /\ log[i].renamed
                             /\ IsAncestor(dirs[di], log[i].path)
    /\ Resolve(fs, dirs[di]) # 0

\* A codec accepts a buffer when it decodes the whole of it strictly.
Accepts(b, e) == StrictDecode(b, e) # DecodeError

AllRejected(b) ==
    /\ \A g \in Guesses(b) : g = "None" \/ ~Accepts(b, g)
    /\ \A i \in DOMAIN CHINESE_ENCODINGS : ~Accepts(b, CHINESE_ENCODINGS[i])

Reported(path) == {k \in DOMAIN report : report[k].path = path}

\* C15: in a dry run, the number printed in "Content: N lines would change" for
\* a file is the number of indices i, below the line counts of both the decoded
\* text and its conversion, at which the two differ; and a file that was read,
\* whose conversion equals its text (or whose content is not converted) and
\* whose name stays (or whose name is not converted) is not reported at all.
C15_DryRunReport ==
    dry_run =>
       \A j \in DOMAIN log :
          LET e == log[j]
              converted == convert(e.text)
              m == IF Len(e.text) < Len(converted) THEN Len(e.text) ELSE Len(converted)
              same_name == convert_filename(BaseName(e.path)) = BaseName(e.path)
          IN /\ \A k \in Reported(e.path) :
                   report[k].content = "changed" =>
                      report[k].lines =
                          Cardinality({i \in 1 .. m : e.text[i] # converted[i]})
             /\ ( /\ ~e.raised
                  /\ ~convert_content \/ converted = e.text
                  /\ ~rename_files \/ same_name )
                   => Reported(e.path) = {}

\* C15 happens: a dry run with both conversions has read a text of two lines of
\* which one changes and reported 1 for it, and has read a Traditional file
\* with a Traditional name and reported nothing for it.
C15_Witness ==
    /\ dry_run /\ convert_content /\ rename_files
    /\ \E j \in DOMAIN log :
          /\ log[j].text = <<"t", "s">>
          /\ \E k \in Reported(log[j].path) :
                report[k].content = "changed" /\ report[k].lines = 1
    /\ \E j \in DOMAIN log :
          /\ log[j].text = <<"t">> /\ log[j].ok
          /\ BaseName(log[j].path) = Name("t", ".txt")
          /\ Reported(log[j].path) = {}

\* What a dry run of process_directory prints on tree f with the flags rf and
\* cv when no I/O operation fails: the entries of _log_dry_run over the scanned
\* files (the tree does not change during a dry run).
DryRunReport(f, rf, cv) ==
    LET scanned == scan_directory(f)
    IN {o.entry : o \in {x \in UNION {process_file(f, scanned[k], TRUE, rf, cv, FALSE) :
                                         k \in DOMAIN scanned} : x.printed}}

\* C16: when an apply run in which no I/O operation failed returns, the renames
\* it performed, of files and of directories, are those a dry run of the same
\* tree with the same flags reports, and the files for which it wrote a content
\* different from the decoded one are those for which that dry run reports a
\* content change.
C16_DryRunParity ==
    (ApplyRun /\ pc = "return" /\ faults = 0) =>
        LET predicted == DryRunReport(fs0, rename_files, convert_content)
        IN /\ {<<r.path, r.to>> : r \in {x \in predicted : x.rename}}
                 = {<<log[i].path, BaseName(log[i].to)>> :
                        i \in {k \in DOMAIN log : log[k].renamed}}
           /\ \A i \in DOMAIN log :
                 log[i].op = "file" =>
                    ( (\E r \in predicted : r.path = log[i].path /\ r.content = "changed")
                      <=> (log[i].wrote # NoBytes /\ log[i].wrote.text # log[i].text) )

\* C17: in an apply run with content conversion, a file that was renamed had
\* been read and had the conversion of its text written, under the path it
\* had, before; a call in which the read or the write raised did not rename;
\* and right after a call that raised, the file is still found under its
\* original path with its original name (with the converted content when it
\* was the rename that raised).
C17_ContentBeforeRename ==
    (ApplyRun /\ convert_content) =>
       \A i \in DOMAIN log :
          log[i].op = "file" =>
             /\ log[i].renamed =>
                   /\ log[i].read # NoBytes
                   /\ log[i].wrote = write_file_with_encoding(convert(log[i].text))
             /\ (log[i].raised /\ log[i].wrote \in {NoBytes, Truncated}) => ~log[i].renamed
             /\ (log[i].raised /\ i = Len(log)) =>
                   /\ ~log[i].renamed
                   /\ Resolve(fs, log[i].path) = log[i].node
                   /\ fs[log[i].node].name = BaseName(log[i].path)
                   /\ log[i].wrote # NoBytes => fs[log[i].node].content = log[i].wrote
             /\ (log[i].renamed /\ i = Len(log)) =>
                   /\ fs[log[i].node].name = BaseName(log[i].to)
                   /\ fs[log[i].node].content = log[i].wrote

\* C17 happens: one file was rewritten and then renamed, and the call on
\* another file, whose name would change too, has just failed in the write
\* after a good read, leaving the file under its original name.
C17_Witness ==
    /\ ApplyRun /\ convert_content /\ rename_files /\ log # <<>>
    /\ \E i \in DOMAIN log :
          /\ log[i].op = "file" /\ log[i].renamed /\ log[i].ok
          /\ log[i].wrote.text # log[i].read.text
    /\ LET e == log[Len(log)]
       IN /\ e.op = "file" /\ e.raised /\ e.read # NoBytes
          /\ e.wrote \in {NoBytes, Truncated}
          /\ e.to # e.path /\ ~e.renamed
          /\ fs[e.node].name = BaseName(e.path)

\* A tree as its paths show it: the kind and the bytes found under every path.
TreeView(f) ==
    {[path |-> PathOf(f, n), kind |-> f[n].kind, content |-> f[n].content] :
        n \in {x \in Nodes : f[x].kind # "none"}}

\* The tree _rename_directories leaves when it runs over the list seq on tree f
\* and no I/O operation fails.
RECURSIVE RenameAll(_, _)
RenameAll(f, seq) ==
    IF seq = <<>> THEN f
    ELSE RenameAll((CHOOSE o \in rename_directory(f, Head(seq), FALSE) : TRUE).fs, Tail(seq))

\* C18: when the file pass of an apply run with renaming is over, the tree the
\* directory pass leaves (no I/O operation failing) is the same for every
\* order in which the filesystem may enumerate the directories; the file pass
\* itself runs over the path-sorted scan, which no enumeration order enters.
C18_OrderIndependence ==
    (ApplyRun /\ rename_files /\ pc = "files" /\ fi > Len(files)) =>
        \A o1, o2 \in EnumerationOrders(fs) :
            TreeView(RenameAll(fs, SortDeepestFirst(rglob_dirs(fs, o1))))
               = TreeView(RenameAll(fs, SortDeepestFirst(rglob_dirs(fs, o2))))

\* The regular files of a tree.
RegularFiles(f) == {n \in Nodes : f[n].kind = "file"}

\* C19: in an apply run no rename of a file removes another entry: every
\* regular file the run found is still a regular file, there are as many
\* regular files as before, and no turn of the file loop replaced an entry.
C19_NoFileDestroyed ==
    ApplyRun =>
       /\ \A n \in RegularFiles(fs0) : fs[n].kind = "file"
       /\ Cardinality(RegularFiles(fs)) = Cardinality(RegularFiles(fs0))
       /\ \A i \in DOMAIN log : log[i].replaced = 0

\* C20: the target directory keeps its name, although the converter would
\* change it: no path of either list and no turn of either loop is the target
\* directory's own path, so that every entry renamed or rewritten lies
\* strictly below it.
C20_RootKept ==
    /\ source_dir = TargetName
    /\ \A k \in DOMAIN files : Depth(files[k]) >= 1
    /\ \A k \in DOMAIN dirs : Depth(dirs[k]) >= 1
    /\ \A i \in DOMAIN log : Depth(log[i].path) >= 1 /\ log[i].node # 0

\* C20 happens: an apply run with renaming has returned after renaming a
\* directory and a file below the target directory, whose own Simplified name
\* the converter would change, and the target directory still has that name.
C20_Witness ==
    /\ ApplyRun /\ rename_files /\ pc = "exit"
    /\ convert_dirname(TargetName) # TargetName
    /\ source_dir = TargetName
    /\ \E i \in DOMAIN log : log[i].op = "dir" /\ log[i].renamed /\ Depth(log[i].path) = 1
    /\ \E i \in DOMAIN log : log[i].op = "file" /\ log[i].renamed

====
